---- MODULE Spec2Model ----
(***************************************************************************)
(* Library Management System (librarymanagment.py): books, members and     *)
(* loans kept in an SQLite file, one connection and one transaction per    *)
(* domain operation.                                                       *)
(*                                                                         *)
(* The store is the record db = [books, members, loans, seq]; books,       *)
(* members and loans are functions from the existing row ids to rows and   *)
(* seq is sqlite_sequence (the AUTOINCREMENT counters).  The columns       *)
(* created_at, joined_at and phone are written once by the INSERT and are  *)
(* read by no statement of any operation, so the rows do not carry them.   *)
(* Text is a TLA+ string, a nullable column is <<>> (NULL) or <<v>>.       *)
(***************************************************************************)
EXTENDS Integers, Sequences, FiniteSets, TLC

VARIABLES db, now, last

vars == <<db, now, last>>

(***************************************************************************)
(* Bounds of the model.                                                    *)
(***************************************************************************)
MaxBookId == 1
MaxMemberId == 2
MaxLoanId == 2
MaxDay == 2

(***************************************************************************)
(* Text helpers: str.strip(), truthiness of Optional[str].                 *)
(***************************************************************************)
NULL == <<>>

Some(v) == <<v>>

IsNull(o) == o = <<>>

RECURSIVE LStrip(_)
LStrip(s) ==
    IF Len(s) > 0 /\ SubSeq(s, 1, 1) = " "
    THEN LStrip(SubSeq(s, 2, Len(s)))
    ELSE s

RECURSIVE RStrip(_)
RStrip(s) ==
    IF Len(s) > 0 /\ SubSeq(s, Len(s), Len(s)) = " "
    THEN RStrip(SubSeq(s, 1, Len(s) - 1))
    ELSE s

strip(s) == RStrip(LStrip(s))

\* `x.strip() if x else None`: None and "" are falsy
StripOrNone(o) == IF IsNull(o) \/ o[1] = "" THEN NULL ELSE Some(strip(o[1]))

(***************************************************************************)
(* Dates.  The clock is a day ordinal counted from Epoch; the store holds  *)
(* dates as "%Y-%m-%d" text and SQL compares them as text.                 *)
(***************************************************************************)
DATE_FMT == "%Y-%m-%d"

Epoch == <<2024, 12, 30>>

IsLeap(y) == (y % 4 = 0 /\ y % 100 # 0) \/ y % 400 = 0

DaysInMonth(y, m) ==
    IF m = 2 THEN (IF IsLeap(y) THEN 29 ELSE 28)
    ELSE IF m \in {4, 6, 9, 11} THEN 30 ELSE 31

NextDay(c) ==
    IF c[3] < DaysInMonth(c[1], c[2]) THEN <<c[1], c[2], c[3] + 1>>
    ELSE IF c[2] < 12 THEN <<c[1], c[2] + 1, 1>>
    ELSE <<c[1] + 1, 1, 1>>

\* the calendar date of day ordinal n
RECURSIVE CivilOf(_)
CivilOf(n) == IF n <= 0 THEN Epoch ELSE NextDay(CivilOf(n - 1))

\* the day ordinal of a calendar date not before Epoch
RECURSIVE OrdinalFrom(_, _)
OrdinalFrom(c, n) == IF CivilOf(n) = c THEN n ELSE OrdinalFrom(c, n + 1)

OrdinalOf(c) == OrdinalFrom(c, 0)

Pad2(n) == IF n < 10 THEN "0" \o ToString(n) ELSE ToString(n)

strftime(c) == ToString(c[1]) \o "-" \o Pad2(c[2]) \o "-" \o Pad2(c[3])

DigitOf(ch) ==
    CASE ch = "0" -> 0 [] ch = "1" -> 1 [] ch = "2" -> 2 [] ch = "3" -> 3
      [] ch = "4" -> 4 [] ch = "5" -> 5 [] ch = "6" -> 6 [] ch = "7" -> 7
      [] ch = "8" -> 8 [] ch = "9" -> 9

RECURSIVE NumOf(_)
NumOf(s) ==
    IF Len(s) = 0 THEN 0
    ELSE 10 * NumOf(SubSeq(s, 1, Len(s) - 1)) + DigitOf(SubSeq(s, Len(s), Len(s)))

\* parse_date: datetime.strptime(s, DATE_FMT), as a day ordinal
parse_date(s) ==
    OrdinalOf(<<NumOf(SubSeq(s, 1, 4)), NumOf(SubSeq(s, 6, 7)), NumOf(SubSeq(s, 9, 10))>>)

\* today(): datetime.now().strftime(DATE_FMT) when the clock reads day t
today(t) == strftime(CivilOf(t))

\* timedelta arithmetic followed by strftime
PlusDaysInclusive(s, days) == strftime(CivilOf(parse_date(s) + days - 1))

PlusDays(s, days) == strftime(CivilOf(parse_date(s) + days))

\* rank of a character in the text collation of the date strings
CharRank(ch) == IF ch = "-" THEN 0 ELSE 1 + DigitOf(ch)

\* SQL text comparison a < b (BINARY collation)
RECURSIVE TextLess(_, _)
TextLess(a, b) ==
    IF Len(b) = 0 THEN FALSE
    ELSE IF Len(a) = 0 THEN TRUE
    ELSE IF SubSeq(a, 1, 1) = SubSeq(b, 1, 1)
         THEN TextLess(SubSeq(a, 2, Len(a)), SubSeq(b, 2, Len(b)))
         ELSE CharRank(SubSeq(a, 1, 1)) < CharRank(SubSeq(b, 1, 1))

(***************************************************************************)
(* The connection.                                                         *)
(***************************************************************************)
\* get_conn() opens a connection without `PRAGMA foreign_keys = ON`; the
\* pragma of init_db holds for init_db's own connection only, and SQLite
\* leaves foreign keys unenforced on a connection that does not set it.
ForeignKeysEnforced == TRUE

ForeignKeys == FALSE

\* `with closing(get_conn()) as conn, conn:` commits the connection's writes
\* when the body ends normally and rolls them back when it raises.
ConnExitAutocommit(pre, work, raised) == work

ConnExit(pre, work, raised) == IF raised THEN pre ELSE work

EmptyDb ==
    [books |-> <<>>, members |-> <<>>, loans |-> <<>>,
     seq |-> [books |-> 0, members |-> 0, loans |-> 0]]

\* a function without the key k
Without(f, k) == [x \in DOMAIN f \ {k} |-> f[x]]

\* a function with the key k bound to v
With(f, k, v) == [x \in DOMAIN f \cup {k} |-> IF x = k THEN v ELSE f[x]]

(***************************************************************************)
(* SQL statements.  Each yields the connection's view of the store after   *)
(* the statement and whether the statement raised sqlite3.IntegrityError.  *)
(***************************************************************************)
\* INSERT INTO books (isbn TEXT UNIQUE, id INTEGER PRIMARY KEY AUTOINCREMENT)
InsertBook(d, row) ==
    IF ~IsNull(row.isbn) /\ \E k \in DOMAIN d.books : d.books[k].isbn = row.isbn
    THEN [db |-> d, raised |-> TRUE, id |-> 0]
    ELSE LET id == d.seq.books + 1
         IN [db |-> [d EXCEPT !.books = With(d.books, id, row), !.seq.books = id],
             raised |-> FALSE, id |-> id]

InsertMemberNotUnique(d, row) ==
    LET id == d.seq.members + 1
    IN [db |-> [d EXCEPT !.members = With(d.members, id, row), !.seq.members = id],
        raised |-> FALSE, id |-> id]

\* INSERT INTO members (email TEXT UNIQUE)
InsertMember(d, row) ==
    IF ~IsNull(row.email) /\ \E k \in DOMAIN d.members : d.members[k].email = row.email
    THEN [db |-> d, raised |-> TRUE, id |-> 0]
    ELSE LET id == d.seq.members + 1
         IN [db |-> [d EXCEPT !.members = With(d.members, id, row), !.seq.members = id],
             raised |-> FALSE, id |-> id]

\* INSERT INTO loans (book_id REFERENCES books(id), member_id REFERENCES
\* members(id)); return_date is left NULL
InsertLoan(d, book_id, member_id, loan_date, due_date) ==
    IF ForeignKeys /\ (book_id \notin DOMAIN d.books \/ member_id \notin DOMAIN d.members)
    THEN [db |-> d, raised |-> TRUE, id |-> 0]
    ELSE LET id == d.seq.loans + 1
             row == [book_id |-> book_id, member_id |-> member_id,
                     loan_date |-> loan_date, due_date |-> due_date,
                     return_date |-> NULL]
         IN [db |-> [d EXCEPT !.loans = With(d.loans, id, row), !.seq.loans = id],
             raised |-> FALSE, id |-> id]

UpdateCopiesEveryBook(d, book_id, delta) ==
    [d EXCEPT !.books = [k \in DOMAIN d.books |->
                            [d.books[k] EXCEPT !.copies_available = @ + delta]]]

UpdateCopiesNoIncrement(d, book_id, delta) ==
    IF book_id \in DOMAIN d.books /\ delta < 0
    THEN [d EXCEPT !.books[book_id].copies_available = @ + delta]
    ELSE d

\* UPDATE books SET copies_available = copies_available + delta WHERE id=?
UpdateCopies(d, book_id, delta) ==
    IF book_id \in DOMAIN d.books
    THEN [d EXCEPT !.books[book_id].copies_available = @ + delta]
    ELSE d

UpdateReturnDateNoWhere(d, loan_id, date) ==
    [d EXCEPT !.loans = [k \in DOMAIN d.loans |-> [d.loans[k] EXCEPT !.return_date = Some(date)]]]

\* UPDATE loans SET return_date=? WHERE id=?
UpdateReturnDate(d, loan_id, date) ==
    IF loan_id \in DOMAIN d.loans
    THEN [d EXCEPT !.loans[loan_id].return_date = Some(date)]
    ELSE d

DeleteBookRowOthers(d, book_id) ==
    [d EXCEPT !.books = [k \in DOMAIN d.books \cap {book_id} |-> d.books[k]]]

\* DELETE FROM books WHERE id=? (loans.book_id ... ON DELETE CASCADE)
DeleteBookRow(d, book_id) ==
    [d EXCEPT !.books = Without(d.books, book_id),
              !.loans = IF ForeignKeys
                        THEN [k \in {x \in DOMAIN d.loans : d.loans[x].book_id # book_id}
                                |-> d.loans[k]]
                        ELSE d.loans]

\* DELETE FROM members WHERE id=? (loans.member_id ... ON DELETE CASCADE)
DeleteMemberRow(d, member_id) ==
    [d EXCEPT !.members = Without(d.members, member_id),
              !.loans = IF ForeignKeys
                        THEN [k \in {x \in DOMAIN d.loans : d.loans[x].member_id # member_id}
                                |-> d.loans[k]]
                        ELSE d.loans]

\* SELECT COUNT(*) FROM loans WHERE book_id=? AND return_date IS NULL
ActiveLoansOfBook(d, book_id) ==
    Cardinality({k \in DOMAIN d.loans :
                    d.loans[k].book_id = book_id /\ IsNull(d.loans[k].return_date)})

\* SELECT COUNT(*) FROM loans WHERE member_id=? AND return_date IS NULL
ActiveLoansOfMember(d, member_id) ==
    Cardinality({k \in DOMAIN d.loans :
                    d.loans[k].member_id = member_id /\ IsNull(d.loans[k].return_date)})

(***************************************************************************)
(* Outcomes: the message the operation prints, or the exception it lets    *)
(* escape.                                                                 *)
(***************************************************************************)
OutAdded == "Added"
OutIntegrityError == "sqlite3.IntegrityError"
OutInterrupted == "interrupted"
OutBookDeleteBlocked == "Cannot delete: active loans exist for this book."
OutBookDeleted == "Book deleted (if it existed)."
OutMemberDeleteBlocked == "Cannot delete: member has active loans."
OutMemberDeleted == "Member deleted (if it existed)."
OutBookNotFound == "Book not found."
OutNoCopies == "No available copies."
OutLoanCreated == "Loan created."
OutLoanNotFound == "Loan not found."
OutAlreadyReturned == "Already returned."
OutReturnedLate == "Returned late by N day(s)."
OutReturnedOnTime == "Returned on time. Thank you!"
OutSamplesSkipped == "Database already has data; skipping samples."
OutSamplesLoaded == "Sample data loaded."

\* where a multi-write operation is interrupted: not at all, after its
\* first write, or after its second write and before the commit
FailPoints == {"none", "write1", "write2"}

(***************************************************************************)
(* Domain operations, as functions of the committed store d.               *)
(***************************************************************************)
add_book(d, title, author, isbn, copies) ==
    LET row == [title |-> strip(title), author |-> strip(author),
                isbn |-> StripOrNone(isbn),
                copies_total |-> copies, copies_available |-> copies]
        r == InsertBook(d, row)
    IN [db |-> ConnExit(d, r.db, r.raised),
        out |-> IF r.raised THEN OutIntegrityError ELSE OutAdded,
        id |-> r.id]

delete_book_unguarded(d, book_id) ==
    [db |-> ConnExit(d, DeleteBookRow(d, book_id), FALSE), out |-> OutBookDeleted]

\* `if active:` print the refusal and return before the DELETE

delete_book(d, book_id) ==
    IF ActiveLoansOfBook(d, book_id) # 0
    THEN [db |-> ConnExit(d, d, FALSE), out |-> OutBookDeleteBlocked]
    ELSE [db |-> ConnExit(d, DeleteBookRow(d, book_id), FALSE), out |-> OutBookDeleted]

add_member(d, name, email) ==
    LET row == [name |-> strip(name), email |-> StripOrNone(email)]
        r == InsertMember(d, row)
    IN [db |-> ConnExit(d, r.db, r.raised),
        out |-> IF r.raised THEN OutIntegrityError ELSE OutAdded,
        id |-> r.id]

delete_member(d, member_id) ==
    IF ActiveLoansOfMember(d, member_id) # 0
    THEN [db |-> ConnExit(d, d, FALSE), out |-> OutMemberDeleteBlocked]
    ELSE [db |-> ConnExit(d, DeleteMemberRow(d, member_id), FALSE), out |-> OutMemberDeleted]

NoCopiesLeftStrict(book) == book.copies_available < 0

\* if book["copies_available"] <= 0
NoCopiesLeft(book) == book.copies_available <= 0

AlreadyReturnedNever(loan) == FALSE

\* if loan["return_date"] is not None
AlreadyReturned(loan) == ~IsNull(loan.return_date)

borrow_book(d, t, book_id, member_id, days, fail) ==
    IF book_id \notin DOMAIN d.books
    THEN [db |-> ConnExit(d, d, FALSE), out |-> OutBookNotFound,
          id |-> 0, avail |-> 0, fail |-> "none"]
    ELSE IF NoCopiesLeft(d.books[book_id])
    THEN [db |-> ConnExit(d, d, FALSE), out |-> OutNoCopies,
          id |-> 0, avail |-> d.books[book_id].copies_available, fail |-> "none"]
    ELSE LET loan_date == today(t)
             due_date == PlusDays(loan_date, days)
             w1 == InsertLoan(d, book_id, member_id, loan_date, due_date)
             w2 == UpdateCopies(w1.db, book_id, -1)
             raised == w1.raised \/ fail # "none"
             work == IF w1.raised \/ fail = "write1" THEN w1.db ELSE w2
         IN [db |-> ConnExit(d, work, raised),
             out |-> IF w1.raised THEN OutIntegrityError
                     ELSE IF fail # "none" THEN OutInterrupted
                     ELSE OutLoanCreated,
             id |-> w1.id, avail |-> d.books[book_id].copies_available,
             fail |-> IF w1.raised THEN "none" ELSE fail]

\* t1, t2, t3: the clock at today() (line 225) and at the two datetime.now()
\* of the late notice (lines 233, 234)
return_book(d, t1, t2, t3, loan_id, fail) ==
    IF loan_id \notin DOMAIN d.loans
    THEN [db |-> ConnExit(d, d, FALSE), out |-> OutLoanNotFound,
          book |-> 0, avail |-> 0, n |-> 0, fail |-> "none"]
    ELSE LET loan == d.loans[loan_id]
             avail == IF loan.book_id \in DOMAIN d.books
                      THEN d.books[loan.book_id].copies_available ELSE 0
         IN IF AlreadyReturned(loan)
            THEN [db |-> ConnExit(d, d, FALSE), out |-> OutAlreadyReturned,
                  book |-> loan.book_id, avail |-> avail, n |-> 0, fail |-> "none"]
            ELSE LET w1 == UpdateReturnDate(d, loan_id, today(t1))
                     w2 == UpdateCopies(w1, loan.book_id, 1)
                     due == parse_date(loan.due_date)
                     late == t2 > due
                     late_days == t3 - due
                     work == IF fail = "write1" THEN w1 ELSE w2
                 IN [db |-> ConnExit(d, work, fail # "none"),
                     out |-> IF fail # "none" THEN OutInterrupted
                             ELSE IF late THEN OutReturnedLate
                             ELSE OutReturnedOnTime,
                     book |-> loan.book_id, avail |-> avail,
                     n |-> IF fail = "none" /\ late THEN late_days ELSE 0,
                     fail |-> fail]

load_sample_data_unless_books(d, t) ==
    IF DOMAIN d.books # {}
    THEN [db |-> d, out |-> OutSamplesSkipped]
    ELSE LET b1 == add_book(d, "Clean Code", "Robert C. Martin", Some("9780132350884"), 3)
             b2 == add_book(b1.db, "Fluent Python", "Luciano Ramalho", Some("9781491946008"), 2)
             b3 == add_book(b2.db, "Automate the Boring Stuff with Python", "Al Sweigart",
                            Some("9781593275990"), 4)
             m1 == add_member(b3.db, "Alice", Some("alice@example.com"))
             m2 == add_member(m1.db, "Bob", Some("bob@example.com"))
             l1 == borrow_book(m2.db, t, b1.id, m1.id, 7, "none")
             l2 == borrow_book(l1.db, t, b2.id, m2.id, 14, "none")
         IN [db |-> l2.db, out |-> OutSamplesLoaded]

load_sample_data(d, t) ==
    IF DOMAIN d.books # {} \/ DOMAIN d.members # {}
    THEN [db |-> d, out |-> OutSamplesSkipped]
    ELSE LET b1 == add_book(d, "Clean Code", "Robert C. Martin", Some("9780132350884"), 3)
             b2 == add_book(b1.db, "Fluent Python", "Luciano Ramalho", Some("9781491946008"), 2)
             b3 == add_book(b2.db, "Automate the Boring Stuff with Python", "Al Sweigart",
                            Some("9781593275990"), 4)
             m1 == add_member(b3.db, "Alice", Some("alice@example.com"))
             m2 == add_member(m1.db, "Bob", Some("bob@example.com"))
             l1 == borrow_book(m2.db, t, b1.id, m1.id, 7, "none")
             l2 == borrow_book(l1.db, t, b2.id, m2.id, 14, "none")
         IN [db |-> l2.db, out |-> OutSamplesLoaded]

(***************************************************************************)
(* Reports.  A report row is the loan row with its id, the book's title    *)
(* and the member's name; both JOINs are inner joins.                      *)
(***************************************************************************)
\* FROM loans l JOIN books b ON b.id=l.book_id JOIN members m ON m.id=l.member_id
Joined(d) ==
    {l \in DOMAIN d.loans :
        d.loans[l].book_id \in DOMAIN d.books /\ d.loans[l].member_id \in DOMAIN d.members}

\* SELECT l.*, b.title AS book_title, m.name AS member_name
ReportRow(d, l) ==
    [id |-> l, book_id |-> d.loans[l].book_id, member_id |-> d.loans[l].member_id,
     loan_date |-> d.loans[l].loan_date, due_date |-> d.loans[l].due_date,
     return_date |-> d.loans[l].return_date,
     book_title |-> d.books[d.loans[l].book_id].title,
     member_name |-> d.members[d.loans[l].member_id].name]

\* ORDER BY l.due_date over the loans S; rows of equal due_date come in
\* rowid order
RECURSIVE OrderByDue(_, _)
OrderByDue(d, S) ==
    IF S = {} THEN <<>>
    ELSE LET first == CHOOSE x \in S : \A y \in S \ {x} :
                          \/ TextLess(d.loans[x].due_date, d.loans[y].due_date)
                          \/ d.loans[x].due_date = d.loans[y].due_date /\ x < y
         IN <<ReportRow(d, first)>> \o OrderByDue(d, S \ {first})

list_loans(d, active_only) ==
    LET active == {l \in Joined(d) : IsNull(d.loans[l].return_date)}
    IN IF active_only
       THEN OrderByDue(d, active)
       ELSE OrderByDue(d, active) \o OrderByDue(d, Joined(d) \ active)

list_overdue(d, t) ==
    LET today_str == today(t)
    IN OrderByDue(d, {l \in Joined(d) : /\ IsNull(d.loans[l].return_date)
                                        /\ TextLess(d.loans[l].due_date, today_str)})

stats_members_miscounted(d, t) ==
    <<Cardinality(DOMAIN d.books),
      Cardinality(DOMAIN d.books),
      Cardinality({l \in DOMAIN d.loans : IsNull(d.loans[l].return_date)}),
      Cardinality({l \in DOMAIN d.loans : /\ IsNull(d.loans[l].return_date)
                                          /\ TextLess(d.loans[l].due_date, today(t))})>>

stats(d, t) ==
    <<Cardinality(DOMAIN d.books),
      Cardinality(DOMAIN d.members),
      Cardinality({l \in DOMAIN d.loans : IsNull(d.loans[l].return_date)}),
      Cardinality({l \in DOMAIN d.loans : /\ IsNull(d.loans[l].return_date)
                                          /\ TextLess(d.loans[l].due_date, today(t))})>>

\* the ids of the rows of a report, in the report's order
RowIds(rows) == [i \in 1..Len(rows) |-> rows[i].id]

(***************************************************************************)
(* The state machine: the store, the clock (a day ordinal) and a record of *)
(* what the last operation reported.                                       *)
(***************************************************************************)
\* the inputs the operations are called with
BookInputs ==
    { <<"Dune", "Frank Herbert", NULL, 2>>,
      <<" ", "", Some(" 978 "), 1>>,
      <<"Dune", "Frank Herbert", Some("978"), -1>> }

\* the two stripped emails are equal
MemberInputs ==
    { <<"Alice", Some("a@x.com")>>,
      <<"", Some(" a@x.com ")>> }

Durations == {1}

\* load_sample_data makes three add_book, two add_member and two borrow_book
\* calls; an operation may start while the counter is below its bound, so
\* the ids reach the bound plus what one load adds after its first insert
BookIds == 1..(MaxBookId + 2)

MemberIds == 1..(MaxMemberId + 1)

\* the member ids a borrow is tried with
BorrowerIds == {1, 2}

LoanIds == 1..(MaxLoanId + 1)

Clock == 0..MaxDay

\* what the last call reported to its caller: the message printed (out),
\* the id returned (ret), the N of the late notice (n) and where the call was
\* interrupted (fail).  History for the round trip: a borrow records the
\* book row it read (book, avail), and a return that ends normally right
\* after the borrow that created its loan carries the two over.  A report
\* leaves what it returned in rows: the ids of its rows, or the four counts.
NoOp ==
    [op |-> "none", out |-> "", ret |-> 0, n |-> 0, fail |-> "none",
     book |-> 0, avail |-> 0, rows |-> <<>>]

Init ==
    /\ db = EmptyDb
    /\ now = 0
    /\ last = NoOp

\* the calendar day passes
Tick ==
    /\ now < MaxDay
    /\ now' = now + 1
    /\ last' = [NoOp EXCEPT !.op = "tick"]
    /\ UNCHANGED db

\* the row counters are bounded where the call inserts
AddBook(title, author, isbn, copies) ==
    LET r == add_book(db, title, author, isbn, copies)
    IN /\ r.id <= MaxBookId
       /\ db' = r.db
       /\ last' = [NoOp EXCEPT !.op = "add_book", !.out = r.out, !.ret = r.id]
       /\ UNCHANGED now

AddMember(name, email) ==
    LET r == add_member(db, name, email)
    IN /\ r.id <= MaxMemberId
       /\ db' = r.db
       /\ last' = [NoOp EXCEPT !.op = "add_member", !.out = r.out, !.ret = r.id]
       /\ UNCHANGED now

DeleteBook(book_id) ==
    LET r == delete_book(db, book_id)
    IN /\ db' = r.db
       /\ last' = [NoOp EXCEPT !.op = "delete_book", !.out = r.out]
       /\ UNCHANGED now

DeleteMember(member_id) ==
    LET r == delete_member(db, member_id)
    IN /\ db' = r.db
       /\ last' = [NoOp EXCEPT !.op = "delete_member", !.out = r.out]
       /\ UNCHANGED now

\* the loan counter is bounded where the call reaches its INSERT
BorrowBook(book_id, member_id, days, fail) ==
    LET r == borrow_book(db, now, book_id, member_id, days, fail)
    IN /\ r.id <= MaxLoanId
       /\ r.fail = fail
       /\ db' = r.db
       /\ last' = [NoOp EXCEPT !.op = "borrow_book", !.out = r.out,
                               !.ret = IF r.out = OutLoanCreated THEN r.id ELSE 0,
                               !.fail = r.fail,
                               !.book = IF r.out # OutBookNotFound THEN book_id ELSE 0,
                               !.avail = r.avail]
       /\ UNCHANGED now

\* the calendar day may pass while the operation runs, at most once
ReturnBook(loan_id, fail, t2, t3) ==
    LET r == return_book(db, now, t2, t3, loan_id, fail)
    IN /\ now <= t2 /\ t2 <= t3 /\ t3 <= now + 1
       /\ t3 <= MaxDay
       /\ r.fail = fail
       /\ r.out \in {OutLoanNotFound, OutAlreadyReturned} => t3 = now
       /\ db' = r.db
       /\ now' = t3
       /\ last' = LET roundtrip == /\ last.op = "borrow_book"
                                    /\ last.out = OutLoanCreated
                                    /\ last.ret = loan_id
                                    /\ r.out \in {OutReturnedLate, OutReturnedOnTime}
                  IN [NoOp EXCEPT !.op = "return_book", !.out = r.out, !.n = r.n,
                                  !.fail = r.fail,
                                  !.book = IF roundtrip THEN last.book ELSE 0,
                                  !.avail = IF roundtrip THEN last.avail ELSE 0]

\* a load that inserts may start while the counters are below their bounds
LoadSampleData ==
    LET r == load_sample_data(db, now)
    IN /\ r.out = OutSamplesLoaded =>
              /\ db.seq.books < MaxBookId
              /\ db.seq.members < MaxMemberId
              /\ db.seq.loans < MaxLoanId
       /\ db' = r.db
       /\ last' = [NoOp EXCEPT !.op = "load_sample_data", !.out = r.out]
       /\ UNCHANGED now

ListLoans(active_only) ==
    /\ last' = [NoOp EXCEPT !.op = IF active_only THEN "list_loans(active)" ELSE "list_loans",
                            !.rows = RowIds(list_loans(db, active_only))]
    /\ UNCHANGED <<db, now>>

ListOverdue ==
    /\ last' = [NoOp EXCEPT !.op = "list_overdue", !.rows = RowIds(list_overdue(db, now))]
    /\ UNCHANGED <<db, now>>

Stats ==
    /\ last' = [NoOp EXCEPT !.op = "stats", !.rows = stats(db, now)]
    /\ UNCHANGED <<db, now>>

Next ==
    \/ Tick
    \/ \E in \in BookInputs : AddBook(in[1], in[2], in[3], in[4])
    \/ \E in \in MemberInputs : AddMember(in[1], in[2])
    \/ \E book_id \in BookIds : DeleteBook(book_id)
    \/ \E member_id \in MemberIds : DeleteMember(member_id)
    \/ \E book_id \in BookIds, member_id \in BorrowerIds, days \in Durations,
          fail \in FailPoints : BorrowBook(book_id, member_id, days, fail)
    \/ \E loan_id \in LoanIds, fail \in FailPoints, t2 \in Clock, t3 \in Clock :
          ReturnBook(loan_id, fail, t2, t3)
    \/ LoadSampleData
    \/ \E active_only \in BOOLEAN : ListLoans(active_only)
    \/ ListOverdue
    \/ Stats

Spec == Init /\ [][Next]_vars

TypeOK ==
    /\ now \in 0..MaxDay
    /\ DOMAIN db.books \subseteq 1..db.seq.books
    /\ DOMAIN db.members \subseteq 1..db.seq.members
    /\ DOMAIN db.loans \subseteq 1..db.seq.loans

(***************************************************************************)
(* Properties.                                                             *)
(***************************************************************************)
Returned == {OutReturnedLate, OutReturnedOnTime}

\* the loans of book_id, returned or not
LoansOfBook(d, book_id) == {l \in DOMAIN d.loans : d.loans[l].book_id = book_id}

\* C1: in every reachable state every book row has
\* 0 <= copies_available <= copies_total.
C1_CopiesWithinTotal ==
    \A b \in DOMAIN db.books :
        /\ 0 <= db.books[b].copies_available
        /\ db.books[b].copies_available <= db.books[b].copies_total

\* C2: while a loan without return date references a book (a member), no
\* step removes that book (member), and a DeleteBook (DeleteMember) on it
\* prints the refusal and leaves the whole store as it was.
C2_DeleteBlockedWhileOnLoan ==
    [][ /\ \A b \in BookIds :
              ActiveLoansOfBook(db, b) > 0 =>
                  /\ b \in DOMAIN db.books => b \in DOMAIN db'.books
                  /\ (last'.op = "delete_book" /\ DeleteBook(b))
                     => db' = db /\ last'.out = OutBookDeleteBlocked
        /\ \A m \in MemberIds :
              ActiveLoansOfMember(db, m) > 0 =>
                  /\ m \in DOMAIN db.members => m \in DOMAIN db'.members
                  /\ (last'.op = "delete_member" /\ DeleteMember(m))
                     => db' = db /\ last'.out = OutMemberDeleteBlocked
      ]_vars

C2_Witness ==
    /\ last.op = "delete_book"
    /\ last.out = OutBookDeleteBlocked
    /\ \E b \in DOMAIN db.books : ActiveLoansOfBook(db, b) > 0

\* C3: a BorrowBook whose member_id (or book_id) names no existing row
\* inserts no loan and changes no book's copies_available.
C3_BorrowNeedsBothRows ==
    [][ \A b \in BookIds, m \in MemberIds, days \in Durations, fail \in FailPoints :
            (/\ last'.op = "borrow_book"
             /\ (b \notin DOMAIN db.books \/ m \notin DOMAIN db.members)
             /\ BorrowBook(b, m, days, fail))
            => db'.loans = db.loans /\ db'.books = db.books
      ]_vars

\* C4: a ReturnBook on an existing outstanding loan stamps return_date with
\* the current date and adds 1 to the book's copies_available; a ReturnBook
\* on a loan already returned prints "Already returned." and leaves the
\* store as it was, so of two calls on the same loan only the first writes.
C4_ReturnTwiceWritesOnce ==
    [][ \A l \in LoanIds, t2 \in Clock, t3 \in Clock :
            (/\ last'.op = "return_book"
             /\ l \in DOMAIN db.loans
             /\ ReturnBook(l, "none", t2, t3)) =>
                IF IsNull(db.loans[l].return_date)
                THEN LET b == db.loans[l].book_id
                     IN /\ last'.out \in Returned
                        /\ db'.loans = [db.loans EXCEPT ![l].return_date = Some(today(now))]
                        /\ b \in DOMAIN db.books
                        /\ db'.books = [db.books EXCEPT ![b].copies_available = @ + 1]
                        /\ db'.members = db.members
                ELSE last'.out = OutAlreadyReturned /\ db' = db
      ]_vars

C4_Witness ==
    /\ last.op = "return_book"
    /\ last.out = OutAlreadyReturned
    /\ \E l \in DOMAIN db.loans : ~IsNull(db.loans[l].return_date)

\* C5: when a ReturnBook on the loan a successful BorrowBook created runs
\* right after that borrow, the book's copies_available is again what the
\* borrow read.
C5_BorrowReturnRoundTrip ==
    (last.op = "return_book" /\ last.out \in Returned /\ last.book # 0) =>
        /\ last.book \in DOMAIN db.books
        /\ db.books[last.book].copies_available = last.avail

C5_Witness ==
    /\ last.op = "return_book"
    /\ last.out \in Returned
    /\ last.book \in DOMAIN db.books
    /\ db.books[last.book].copies_available = last.avail
    /\ last.avail > 0

\* C6: a BorrowBook on a missing book prints "Book not found.", one on a
\* book with copies_available = 0 prints "No available copies."; neither
\* changes the store.  For a book none of whose loans was returned, a borrow
\* succeeds while the book has fewer loans than copies_total and is refused
\* from then on.
C6_BorrowRefusals ==
    [][ \A b \in BookIds, m \in MemberIds, days \in Durations :
            (last'.op = "borrow_book" /\ BorrowBook(b, m, days, "none")) =>
                /\ b \notin DOMAIN db.books =>
                       last'.out = OutBookNotFound /\ db' = db
                /\ (b \in DOMAIN db.books /\ db.books[b].copies_available = 0) =>
                       last'.out = OutNoCopies /\ db' = db
                /\ (b \in DOMAIN db.books
                      /\ \A l \in LoansOfBook(db, b) : IsNull(db.loans[l].return_date)) =>
                       IF Cardinality(LoansOfBook(db, b)) < db.books[b].copies_total
                       THEN last'.out = OutLoanCreated
                       ELSE last'.out = OutNoCopies /\ db' = db
      ]_vars

C6_Witness ==
    /\ last.op = "borrow_book"
    /\ last.out = OutNoCopies
    /\ last.book \in DOMAIN db.books
    /\ db.books[last.book].copies_total > 0
    /\ Cardinality(LoansOfBook(db, last.book)) = db.books[last.book].copies_total

\* C7: a BorrowBook or ReturnBook interrupted after its first write, or
\* after its second write and before the commit, leaves the committed store
\* as it was before the call.
C7_InterruptedWritesNothing ==
    [][ \A fail \in FailPoints \ {"none"} :
          /\ \A b \in BookIds, m \in MemberIds, days \in Durations :
                (last'.op = "borrow_book" /\ last'.fail = fail /\ BorrowBook(b, m, days, fail))
                => db' = db /\ last'.out = OutInterrupted
          /\ \A l \in LoanIds, t2 \in Clock, t3 \in Clock :
                (last'.op = "return_book" /\ last'.fail = fail /\ ReturnBook(l, fail, t2, t3))
                => db' = db /\ last'.out = OutInterrupted
      ]_vars

C7_Witness ==
    /\ last.op = "borrow_book"
    /\ last.out = OutInterrupted
    /\ last.fail = "write1"
    /\ db.books[last.book].copies_available = last.avail

\* C8: an AddBook with an empty title, an empty author or copies_total < 1
\* inserts no book row, and an AddMember with an empty name inserts no
\* member row; neither returns an id.
C8_AddValidates ==
    [][ /\ \A in \in BookInputs :
              (/\ last'.op = "add_book"
               /\ (in[1] = "" \/ in[2] = "" \/ in[4] < 1)
               /\ AddBook(in[1], in[2], in[3], in[4]))
              => db' = db /\ last'.out # OutAdded
        /\ \A in \in MemberInputs :
              (last'.op = "add_member" /\ in[1] = "" /\ AddMember(in[1], in[2]))
              => db' = db /\ last'.out # OutAdded
      ]_vars

\* C9: no step removes or changes a loan row other than by stamping its
\* return date, and a DeleteBook or DeleteMember, refused or not, leaves
\* the loans table as it was.
C9_LoansNeverDeleted ==
    [][ /\ \A l \in DOMAIN db.loans :
              /\ l \in DOMAIN db'.loans
              /\ [db'.loans[l] EXCEPT !.return_date = NULL]
                     = [db.loans[l] EXCEPT !.return_date = NULL]
        /\ \A b \in BookIds :
              (last'.op = "delete_book" /\ DeleteBook(b)) => db'.loans = db.loans
        /\ \A m \in MemberIds :
              (last'.op = "delete_member" /\ DeleteMember(m)) => db'.loans = db.loans
      ]_vars

C9_Witness ==
    /\ last.op = "delete_book"
    /\ last.out = OutBookDeleted
    /\ \E l \in DOMAIN db.loans : db.loans[l].book_id \notin DOMAIN db.books

\* C10: a return_date that is set stays as it is in every later state.
C10_ReturnDateImmutable ==
    [][ \A l \in DOMAIN db.loans :
            ~IsNull(db.loans[l].return_date) =>
                /\ l \in DOMAIN db'.loans
                /\ db'.loans[l].return_date = db.loans[l].return_date
      ]_vars

C10_Witness ==
    /\ last.op = "return_book"
    /\ last.out = OutAlreadyReturned
    /\ \E l \in DOMAIN db.loans :
          /\ ~IsNull(db.loans[l].return_date)
          /\ TextLess(db.loans[l].return_date[1], today(now))

\* C11: a BorrowBook that succeeds inserts exactly one loan, whose loan_date
\* is the current date, whose due_date is duration_days days after its
\* loan_date and whose return_date is null; it lowers copies_available of the
\* named book by exactly 1 and of no other book, touches nothing else, and
\* returns the id of the new loan.
C11_BorrowCreatesOneLoan ==
    [][ \A b \in BookIds, m \in BorrowerIds, days \in Durations :
          (/\ last'.op = "borrow_book"
           /\ last'.out = OutLoanCreated
           /\ BorrowBook(b, m, days, "none"))
          => LET id == last'.ret
             IN /\ id \notin DOMAIN db.loans
                /\ DOMAIN db'.loans = DOMAIN db.loans \cup {id}
                /\ \A l \in DOMAIN db.loans : db'.loans[l] = db.loans[l]
                /\ db'.loans[id].book_id = b
                /\ db'.loans[id].member_id = m
                /\ db'.loans[id].loan_date = strftime(CivilOf(now))
                /\ db'.loans[id].due_date = strftime(CivilOf(now + days))
                /\ parse_date(db'.loans[id].due_date)
                      - parse_date(db'.loans[id].loan_date) = days
                /\ IsNull(db'.loans[id].return_date)
                /\ DOMAIN db'.books = DOMAIN db.books
                /\ db'.books[b] =
                      [db.books[b] EXCEPT !.copies_available = @ - 1]
                /\ \A o \in DOMAIN db.books \ {b} : db'.books[o] = db.books[o]
                /\ db'.members = db.members
      ]_vars

\* a loan just created, due one day after the day it was made
C11_Witness ==
    /\ last.op = "borrow_book"
    /\ last.out = OutLoanCreated
    /\ last.ret \in DOMAIN db.loans
    /\ db.loans[last.ret].loan_date = today(now)
    /\ db.loans[last.ret].due_date # today(now)
    /\ IsNull(db.loans[last.ret].return_date)

\* C12: an AddMember whose email is not null and is held by an existing
\* member fails, and so does an AddBook whose ISBN is not null and is held
\* by an existing book; the failed call leaves the member and the book table
\* unchanged.  So no two members ever share a non-null email and no two books
\* a non-null ISBN.
C12_UniqueEmailAndIsbn ==
    [][ /\ \A in \in MemberInputs :
              (/\ last'.op = "add_member"
               /\ ~IsNull(StripOrNone(in[2]))
               /\ \E k \in DOMAIN db.members : db.members[k].email = StripOrNone(in[2])
               /\ AddMember(in[1], in[2]))
              => /\ last'.out = OutIntegrityError
                 /\ db'.members = db.members
                 /\ db'.books = db.books
        /\ \A in \in BookInputs :
              (/\ last'.op = "add_book"
               /\ ~IsNull(StripOrNone(in[3]))
               /\ \E k \in DOMAIN db.books : db.books[k].isbn = StripOrNone(in[3])
               /\ AddBook(in[1], in[2], in[3], in[4]))
              => /\ last'.out = OutIntegrityError
                 /\ db'.members = db.members
                 /\ db'.books = db.books
        /\ \A j, k \in DOMAIN db'.members :
              (j # k /\ ~IsNull(db'.members[j].email))
              => db'.members[j].email # db'.members[k].email
        /\ \A j, k \in DOMAIN db'.books :
              (j # k /\ ~IsNull(db'.books[j].isbn))
              => db'.books[j].isbn # db'.books[k].isbn
      ]_vars

\* an AddMember has just failed on the email of the one member there is
C12_Witness ==
    /\ last.op = "add_member"
    /\ last.out = OutIntegrityError
    /\ \E k \in DOMAIN db.members : db.members[k].email = Some("a@x.com")
    /\ Cardinality(DOMAIN db.members) = 1

\* C13: ListOverdue returns exactly the loans whose return_date is null and
\* whose due_date is strictly before the current date, each once, in
\* ascending order of due_date.
C13_OverdueListIsExact ==
    LET rows == list_overdue(db, now)
    IN /\ {rows[i].id : i \in 1..Len(rows)} =
             {l \in DOMAIN db.loans : /\ IsNull(db.loans[l].return_date)
                                      /\ parse_date(db.loans[l].due_date) < now}
       /\ \A i, j \in 1..Len(rows) :
             i < j => /\ rows[i].id # rows[j].id
                      /\ parse_date(rows[i].due_date) <= parse_date(rows[j].due_date)

\* C14: a DeleteBook of an id that no unreturned loan references ends with
\* no book of that id and leaves every other book and every member as they
\* were; it changes nothing when no book has the id.  The same holds of
\* DeleteMember.  So a deletion that was blocked succeeds once the blocking
\* loans are returned.
C14_DeleteRemovesOnlyThatRow ==
    [][ /\ \A b \in BookIds :
              (/\ last'.op = "delete_book"
               /\ ActiveLoansOfBook(db, b) = 0
               /\ DeleteBook(b))
              => /\ last'.out = OutBookDeleted
                 /\ DOMAIN db'.books = DOMAIN db.books \ {b}
                 /\ \A o \in DOMAIN db'.books : db'.books[o] = db.books[o]
                 /\ db'.members = db.members
                 /\ b \notin DOMAIN db.books => db' = db
        /\ \A m \in MemberIds :
              (/\ last'.op = "delete_member"
               /\ ActiveLoansOfMember(db, m) = 0
               /\ DeleteMember(m))
              => /\ last'.out = OutMemberDeleted
                 /\ DOMAIN db'.members = DOMAIN db.members \ {m}
                 /\ \A o \in DOMAIN db'.members : db'.members[o] = db.members[o]
                 /\ db'.books = db.books
                 /\ m \notin DOMAIN db.members => db' = db
      ]_vars

\* a member that had a loan was deleted after the loan was returned, while
\* another member stays
C14_Witness ==
    /\ last.op = "delete_member"
    /\ last.out = OutMemberDeleted
    /\ DOMAIN db.members # {}
    /\ \E l \in DOMAIN db.loans :
          /\ ~IsNull(db.loans[l].return_date)
          /\ db.loans[l].member_id \notin DOMAIN db.members
          /\ db.loans[l].member_id <= db.seq.members

\* C15: LoadSampleData inserts only when the book table and the member table
\* are both empty; when either holds a row it changes nothing, so a second
\* LoadSampleData right after one that loaded is a no-op.
C15_SamplesOnlyIntoEmptyTables ==
    [][ (last'.op = "load_sample_data" /\ LoadSampleData)
        => /\ (DOMAIN db.books # {} \/ DOMAIN db.members # {})
                => db' = db /\ last'.out = OutSamplesSkipped
           /\ db' # db => DOMAIN db.books = {} /\ DOMAIN db.members = {}
           /\ (last.op = "load_sample_data" /\ last.out = OutSamplesLoaded)
                => db' = db /\ last'.out = OutSamplesSkipped
      ]_vars

\* a load that was skipped with the sample books and members in the store
C15_Witness ==
    /\ last.op = "load_sample_data"
    /\ last.out = OutSamplesSkipped
    /\ Cardinality(DOMAIN db.books) = 3
    /\ Cardinality(DOMAIN db.members) = 2

\* C16: a Stats right after a LoadSampleData that loaded, on the same day,
\* returns (3, 2, 2, 0): three books, two members, two active loans, none
\* overdue.
C16_StatsAfterSamples ==
    [][ (/\ last.op = "load_sample_data"
         /\ last.out = OutSamplesLoaded
         /\ last'.op = "stats"
         /\ Stats)
        => last'.rows = <<3, 2, 2, 0>>
      ]_vars

\* the counts reported for the sample store on the day of its two loans
C16_Witness ==
    /\ last.op = "stats"
    /\ last.rows = <<3, 2, 2, 0>>
    /\ db.seq = [books |-> 3, members |-> 2, loans |-> 2]
    /\ \A l \in DOMAIN db.loans : db.loans[l].loan_date = today(now)

\* C17: copies_total of a book never changes.  copies_available of a book
\* goes down by 1 exactly in a BorrowBook of that book that succeeds, goes up
\* by 1 exactly in a ReturnBook that succeeds on a loan of that book, and is
\* left unchanged by every other and every failed operation.
C17_CopiesChangeOnlyByLoans ==
    [][ \A b \in DOMAIN db.books \cap DOMAIN db'.books :
          LET delta == db'.books[b].copies_available - db.books[b].copies_available
          IN /\ db'.books[b].copies_total = db.books[b].copies_total
             /\ delta \in {-1, 0, 1}
             /\ delta = -1 <=> /\ last'.op = "borrow_book"
                               /\ last'.out = OutLoanCreated
                               /\ last'.book = b
             /\ delta = 1 <=> /\ last'.op = "return_book"
                              /\ last'.out \in Returned
                              /\ \E l \in DOMAIN db.loans :
                                    /\ db.loans[l].book_id = b
                                    /\ IsNull(db.loans[l].return_date)
                                    /\ ~IsNull(db'.loans[l].return_date)
      ]_vars

\* a return has just given a copy back to one of several books
C17_Witness ==
    /\ last.op = "return_book"
    /\ last.out \in Returned
    /\ Cardinality(DOMAIN db.books) > 1
    /\ \E b \in DOMAIN db.books :
          db.books[b].copies_available = db.books[b].copies_total

\* C18: on every ReturnBook that succeeds the reported status agrees with the
\* return_date it stored: "late by N" with N = return_date - due_date in
\* days when the stored return_date is after the due_date, "on time"
\* otherwise; also when the day changes while the operation runs.
C18_StatusAgreesWithStoredDate ==
    [][ \A l \in LoanIds, t2 \in Clock, t3 \in Clock :
          (/\ last'.op = "return_book"
           /\ last'.out \in Returned
           /\ ReturnBook(l, "none", t2, t3))
          => LET stored == parse_date(db'.loans[l].return_date[1])
                 due == parse_date(db'.loans[l].due_date)
             IN IF stored > due
                THEN last'.out = OutReturnedLate /\ last'.n = stored - due
                ELSE last'.out = OutReturnedOnTime
      ]_vars

\* C19: for every book in the store, copies_total - copies_available is the
\* number of loans of that book whose return_date is null.
C19_CopiesOutMatchLoans ==
    \A b \in DOMAIN db.books :
        db.books[b].copies_total - db.books[b].copies_available =
            Cardinality({l \in DOMAIN db.loans : /\ db.loans[l].book_id = b
                                                 /\ IsNull(db.loans[l].return_date)})

\* a book with one copy out and one returned loan
C19_Witness ==
    \E b \in DOMAIN db.books :
        /\ db.books[b].copies_total - db.books[b].copies_available = 1
        /\ \E l \in DOMAIN db.loans :
              db.loans[l].book_id = b /\ IsNull(db.loans[l].return_date)
        /\ \E l \in DOMAIN db.loans :
              db.loans[l].book_id = b /\ ~IsNull(db.loans[l].return_date)

\* C20: the active_loan_count of Stats is the number of rows of
\* ListLoans(active_only = true), and its overdue_loan_count is the number
\* of rows of ListOverdue.
C20_StatsCountsMatchLists ==
    /\ stats(db, now)[3] = Len(list_loans(db, TRUE))
    /\ stats(db, now)[4] = Len(list_overdue(db, now))

====
